---- MODULE Spec2Model ----
(***************************************************************************)
(* Relay-and-resilience engine of Anti-Anti-Bot.                           *)
(*                                                                         *)
(* Three coordinators are modelled, selected by the variable prog:         *)
(*   "GeminiStation"     src/GeminiStation/orchestrator.py run_orchestrator*)
(*   "Station_Optimized" src/Station_Optimized.py          run_orchestrator*)
(*   "ide3"              src/3_agent_ide_orchestrator.py                   *)
(*                                            run_agent_pool_orchestrator  *)
(* Each participant is reachable only through its page; the agents behind  *)
(* the pages, the user pressing Stop and the wall clock are environment    *)
(* actions.  A text is a sequence of tokens; the reserved phrases are      *)
(* one-token sequences, so `in` and startswith are computed as substring   *)
(* and prefix tests on sequences.                                          *)
(***************************************************************************)
EXTENDS Integers, Sequences, FiniteSets, TLC

\* ------------------------------------------------------------------ bounds
\* Elements a page's message selector may match before the model stops
\* adding more.
MaxElems == 4
\* The same for the pages of the three-party relay.
MaxPoolElems == 3
\* Identity rotations after which the cooldown is no longer taken.
MaxRotations == 1
\* Seconds the environment clock may tick outside the cooldown sleep.
MaxClock == 1
\* Longest raw element text (in tokens) handed to the artifact stripping.
MaxStripLen == 4
\* Largest rendered length and anchor count of the surface a wait looks at.
MaxRender == 2

\* ------------------------------------------------------- program constants
MAX_ERRORS == 3
FRUSTRATION_MIN_S == 15
FRUSTRATION_MAX_S == 45
\* number of parameters of core_actions.wait_for_ai_response
WAIT_FOR_AI_RESPONSE_PARAMS == 4
\* number of arguments the orchestrator passes to wait_for_ai_response
WAIT_FOR_AI_RESPONSE_ARGS == 5

TERMINATION_PHRASE == <<"TASK_COMPLETED_SUCCESSFULLY">>
PHRASE_TASK_COMPLETE == <<"TASK_COMPLETED_SUCCESSFULLY">>
PHRASE_PATCH_ACCEPT == <<"PATCH_ACCEPT">>
PHRASE_PATCH_REJECT == <<"PATCH_REJECT">>
START_CMD_MSG == <<"START_CMD">>

Programs == {"GeminiStation", "Station_Optimized", "ide3"}
TwoParty == {"GeminiStation", "Station_Optimized"}
Pages == {"A", "B", "Planner", "Coder", "QA"}
PagesOf(p) == IF p \in TwoParty THEN {"A", "B"} ELSE {"Planner", "Coder", "QA"}
StartModes == {"new", "resume_from_a", "resume_from_b"}

\* ------------------------------------------------------------------- texts
\* str.startswith
StartsWith(s, p) == Len(s) >= Len(p) /\ SubSeq(s, 1, Len(p)) = p

\* the `in` operator on strings
Contains(s, p) ==
  \E i \in 1..(Len(s) - Len(p) + 1) : SubSeq(s, i, i + Len(p) - 1) = p

\* `not message or not message.strip()`: nothing but whitespace
IsBlank(m) == \A i \in 1..Len(m) : m[i] = " "

\* str.replace(old, ""): the leftmost occurrences of old, one pass, never
\* looking again at text a removal has joined
RECURSIVE Replace(_, _)
Replace(s, old) ==
  IF Len(s) < Len(old) \/ Len(old) = 0 THEN s
  ELSE IF SubSeq(s, 1, Len(old)) = old
  THEN Replace(SubSeq(s, Len(old) + 1, Len(s)), old)
  ELSE <<Head(s)>> \o Replace(Tail(s), old)

\* str.lstrip() and str.strip()
RECURSIVE LStrip(_)
LStrip(s) == IF s # <<>> /\ Head(s) = " " THEN LStrip(Tail(s)) ELSE s

RECURSIVE RStrip(_)
RStrip(s) ==
  IF s # <<>> /\ s[Len(s)] = " " THEN RStrip(SubSeq(s, 1, Len(s) - 1)) ELSE s

Strip(s) == LStrip(RStrip(s))

\* The UI labels removed from an extracted text.  A text is a sequence of
\* pieces of characters: the English label 'Show thoughts' is the piece
\* "Show " followed by the piece "thoughts", the Chinese label (U+663E
\* U+793A U+601D U+8DEF) its first two characters followed by its last two.
SHOW_THOUGHTS_EN == <<"Show ", "thoughts">>
SHOW_THOUGHTS_ZH == <<"xianshi", "silu">>

\* cleaned = raw_text.replace(...).replace(...).strip(), in the order of the
\* implementation: 3_agent_ide_orchestrator removes the English label
\* first, full_agent_orchestrator the Chinese one (and ends with lstrip).
CleanText(impl, raw_text) ==
  IF impl = "ide3"
  THEN Strip(Replace(Replace(raw_text, SHOW_THOUGHTS_EN), SHOW_THOUGHTS_ZH))
  ELSE LStrip(Strip(Replace(Replace(raw_text, SHOW_THOUGHTS_ZH),
                            SHOW_THOUGHTS_EN)))

\* The raw element texts the stripping is applied to.
StripPieces == {"Show ", "thoughts", "xianshi", "silu", " ", "w"}

RawTexts ==
  UNION { [1..n -> StripPieces] : n \in 0..MaxStripLen }

\* Replies an agent of the two-party relay may produce (already stripped by
\* the extractor): empty, ordinary, the termination phrase alone, and the
\* termination phrase inside a longer text.
Texts2 ==
  { <<>>, <<"w">>, <<"TASK_COMPLETED_SUCCESSFULLY">>,
    <<"w", "TASK_COMPLETED_SUCCESSFULLY">> }

\* Replies an agent of the three-party relay may produce: every combination
\* of prefix marker (accept, reject, none) and presence of the termination
\* phrase, and the empty text.
Texts3 ==
  { <<>>, <<"w">>, <<"PATCH_ACCEPT">>, <<"PATCH_REJECT">>,
    <<"TASK_COMPLETED_SUCCESSFULLY">>,
    <<"w", "TASK_COMPLETED_SUCCESSFULLY">>,
    <<"PATCH_ACCEPT", "TASK_COMPLETED_SUCCESSFULLY">>,
    <<"PATCH_REJECT", "TASK_COMPLETED_SUCCESSFULLY">> }

ReplyTexts(p) == IF p \in TwoParty THEN Texts2 ELSE Texts3

\* the element cap of the running program's pages
ElemCap(p) == IF p \in TwoParty THEN MaxElems ELSE MaxPoolElems

\* ----------------------------------------------------------------- Session
\* personas[...] of Session.__init__; probabilities in thousandths.
Personas(p) ==
  IF p = "GeminiStation"
  THEN [ new_user |-> [P_IDLE_TRIGGER |-> 300],
         experienced_user |-> [P_IDLE_TRIGGER |-> 150] ]
  ELSE [ new_user |-> [TYPO_PROBABILITY |-> 50, P_IDLE_TRIGGER |-> 300],
         experienced_user |-> [TYPO_PROBABILITY |-> 15, P_IDLE_TRIGGER |-> 150] ]

\* rng.choice(list(personas.keys())) of Random(seed): a fixed function of
\* the seed (the generator itself is not modelled; parity stands for it).
PersonaOf(seed) == IF seed % 2 = 0 THEN "new_user" ELSE "experienced_user"

\* Session.__init__
Session(p, seed) ==
  [ session_seed |-> seed,
    task_lock |-> FALSE,
    persona_name |-> PersonaOf(seed),
    behavioral_params |-> Personas(p)[PersonaOf(seed)] ]

\* seed, persona and behavioural parameters of a Session (all but the lock)
Identity(s) == <<s.session_seed, s.persona_name, s.behavioral_params>>

\* ------------------------------------------------------------------- state
VARIABLES
  prog,            \* which coordinator runs
  user_data_dir,   \* os.path.exists(Config.EDGE_USER_DATA_PATH)
  pc,              \* the coordinator's position
  outcome,         \* "running" | "terminated" | "stopped" | "crashed" |
                   \* "no_next_hop" | "setup_failed"
  session,         \* the Session in use
  error_count,     \* run_orchestrator's error_count
  start_mode,      \* GeminiStation: run_orchestrator's start_mode
  stop_requested,  \* BackendWorker._stop_requested
  now,             \* int(time.time()), seconds
  page,            \* per participant: what its page shows
  message_A,       \* two-party: text extracted from Agent A
  message_B,       \* two-party: text extracted from Agent B
  current_msg,     \* three-party: current_msg
  current_sender,  \* three-party: current_sender
  msg_origin,      \* history: the participant that produced current_msg
  call,            \* the send_message_robust / wait call in progress
  final_message,   \* the text handed to handle_termination
  hist,            \* history: failure streak, cooldown sleeps, rotations
  unit             \* a function applied on its own: its arguments, its
                   \* local variables and the surface it looks at

vars ==
  << prog, user_data_dir, unit, pc, outcome, session, error_count, start_mode, stop_requested, now,
     page, message_A, message_B, current_msg, current_sender, msg_origin,
     call, final_message, hist >>

NoText == <<>>
\* no function is being applied on its own
NoUnit == [fn |-> "-"]
NoCall == [to |-> "-", msg |-> NoText, origin |-> "-", ret |-> "-",
           known |-> 0, shown |-> FALSE]

\* A page: count = elements matched by the program's message selector,
\* text = text of the last of them, origin = who produced that text,
\* awaiting = a submitted message has not been answered yet.
BlankPage == [count |-> 0, text |-> NoText, origin |-> "-", awaiting |-> FALSE]

\* The pages as the user may have left them when the coordinator takes
\* over (the manual set-up period): blank, holding a question not yet
\* answered, or holding a finished reply.  GeminiStation's message selector
\* (.response-container) matches replies only; the other programs' selector
\* matches user bubbles and replies.
Answered(p, who, t) ==
  [count |-> IF p = "GeminiStation" THEN 1 ELSE 2, text |-> t,
   origin |-> who, awaiting |-> FALSE]

Asked(p) ==
  IF p = "GeminiStation"
  THEN [count |-> 0, text |-> NoText, origin |-> "-", awaiting |-> TRUE]
  ELSE [count |-> 1, text |-> <<"w">>, origin |-> "user", awaiting |-> TRUE]

\* The participant whose page the coordinator reads first.
Lead(p) == IF p \in TwoParty THEN "A" ELSE "Planner"

LeadPages(p) ==
  {BlankPage, Asked(p)} \cup { Answered(p, Lead(p), t) : t \in ReplyTexts(p) }

\* Agent B may hold any finished reply; Coder and QA are idle (blank or an
\* ordinary earlier reply).
OtherPages(p, q) ==
  {BlankPage} \cup
  { Answered(p, q, t) : t \in (IF p \in TwoParty THEN Texts2 ELSE {<<"w">>}) }

InitPages(p) ==
  { [q \in Pages |->
       IF q = Lead(p) THEN a
       ELSE IF q \in {"B", "Coder"} /\ q \in PagesOf(p) THEN [b EXCEPT !.origin = IF b.count = 0 THEN "-" ELSE q]
       ELSE IF q = "QA" /\ q \in PagesOf(p) THEN [c EXCEPT !.origin = IF c.count = 0 THEN "-" ELSE q]
       ELSE BlankPage] :
      a \in LeadPages(p),
      b \in OtherPages(p, "B"),
      c \in (IF p \in TwoParty THEN {BlankPage} ELSE OtherPages(p, "QA")) }

\* History kept beside the program's state: the failure streak, the
\* cooldown sleeps and rotations, whether run_orchestrator was called, where
\* the coordinator was when stop() was called, the participant whose
\* completion wait last returned in the current pass, the recipient of
\* the last committed submission, and what raised the exception being
\* handled ("readiness": wait_for_page_stability; "cancelled": a stop check
\* of BackendWorker.run), kept until the handler is left.  two-party: the
\* recipient of the turn in progress (from the call of send_message_robust
\* to the return of the completion wait), kept with turn_failed set when
\* the turn raised, until the next turn begins or the threshold is reached.
InitHist(s) ==
  [streak |-> 0, streak_id |-> Identity(s), sleeps |-> 0, rotations |-> 0,
   discarded_seed |-> -1, entered |-> FALSE, stop_pc |-> "-", waited |-> "-",
   last_to |-> "-", cause |-> "-",
   turn_to |-> "-", turn_failed |-> FALSE]

TurnBegun(h, to) ==
  IF prog \in TwoParty
  THEN [h EXCEPT !.turn_to = to, !.turn_failed = FALSE]
  ELSE h

TurnFailed(h) ==
  IF prog \in TwoParty THEN [h EXCEPT !.turn_failed = TRUE] ELSE h

TurnOver(h) ==
  [h EXCEPT !.turn_to = "-", !.turn_failed = FALSE]

Init ==
  /\ prog \in Programs
  /\ user_data_dir \in (IF prog = "ide3" THEN {TRUE} ELSE BOOLEAN)
  /\ pc = IF prog = "ide3" THEN "p_init" ELSE "w_run"
  /\ outcome = "running"
  /\ now = 0
  /\ session = Session(prog, 0)
  /\ error_count = 0
  /\ start_mode \in (IF prog = "GeminiStation" THEN StartModes ELSE {"new"})
  /\ stop_requested = FALSE
  /\ page \in InitPages(prog)
  /\ message_A = NoText
  /\ message_B = NoText
  /\ current_msg = NoText
  /\ current_sender = "-"
  /\ msg_origin = "-"
  /\ call = NoCall
  /\ final_message = NoText
  /\ hist = InitHist(session)
  /\ unit = NoUnit

\* ------------------------------------------------------------- environment
\* The agent behind page p finishes a reply to the last submitted message.
\* GeminiStation's extractor walks the reply containers backwards to the
\* last one with text, so an empty reply leaves its text unchanged.
AgentReply(p) ==
  /\ outcome = "running"
  /\ p \in PagesOf(prog)
  /\ page[p].awaiting
  /\ page[p].count < ElemCap(prog)
  /\ \E r \in ReplyTexts(prog) :
       page' = [page EXCEPT ![p] =
                 [count |-> @.count + 1,
                  text |-> IF prog = "GeminiStation" /\ IsBlank(r) THEN @.text ELSE r,
                  origin |-> IF prog = "GeminiStation" /\ IsBlank(r) THEN @.origin ELSE p,
                  awaiting |-> FALSE]]
  /\ UNCHANGED << prog, user_data_dir, unit, pc, outcome, session, error_count, start_mode,
                  stop_requested, now, message_A, message_B, current_msg,
                  current_sender, msg_origin, call, final_message, hist >>

\* BackendWorker.stop, called from the GUI thread
stop ==
  /\ outcome = "running"
  /\ prog = "GeminiStation"
  /\ ~stop_requested
  /\ stop_requested' = TRUE
  /\ hist' = [hist EXCEPT !.stop_pc = pc]
  /\ UNCHANGED << prog, user_data_dir, unit, pc, outcome, session, error_count, start_mode, now,
                  page, message_A, message_B, current_msg, current_sender,
                  msg_origin, call, final_message >>

\* One second passes.
Tick ==
  /\ outcome = "running"
  /\ now < MaxClock
  /\ now' = now + 1
  /\ UNCHANGED << prog, user_data_dir, unit, pc, outcome, session, error_count, start_mode,
                  stop_requested, page, message_A, message_B, current_msg,
                  current_sender, msg_origin, call, final_message, hist >>

\* ------------------------------------------------------------ control flow
Goto(l) == pc' = l /\ outcome' = outcome

\* Variant: no handler around the loop.
RaiseUncaught == pc' = "done" /\ outcome' = "crashed"

\* An exception leaves the current statement.  The two-party loops catch it
\* (`except Exception`); run_agent_pool_orchestrator has no handler, so it
\* ends the run.
Raise ==
  IF prog = "ide3"
  THEN pc' = "done" /\ outcome' = "crashed"
  ELSE pc' = "except" /\ outcome' = outcome

\* The loop is left for good.
Finish(o) == pc' = "done" /\ outcome' = o

\* Variant: a readiness timeout inside the loop ending the run.
ReadinessFatal ==
  /\ Finish("crashed")
  /\ hist' = [hist EXCEPT !.cause = "readiness"]

\* Variant: a readiness timeout at start-up answered by another launch.
StartupReadinessRetried ==
  /\ Goto("w_launch")
  /\ hist' = [hist EXCEPT !.cause = "readiness"]

\* wait_for_page_stability fails in BackendWorker.run, before
\* run_orchestrator is called: the exception reaches the entry point's
\* `except Exception`, which reports a fatal error.
StartupReadinessTimeout ==
  /\ Finish("crashed")
  /\ hist' = [hist EXCEPT !.cause = "readiness"]

\* wait_for_page_stability fails inside run_orchestrator's try: the input
\* box did not become editable in time.  expect(...) signals it with an
\* AssertionError, which the function's `except PlaywrightTimeoutError` does
\* not match; either way an Exception leaves the function and reaches the
\* loop's `except Exception`.
ReadinessTimeout ==
  /\ Raise
  /\ hist' = [hist EXCEPT !.cause = "readiness"]

\* ------------------------------- start-up: BackendWorker.run and __main__
\* Variant: the entry point without the directory check.
W_CheckEnv_Missing ==
  /\ pc = "w_run"
  /\ Goto("w_launch")
  /\ UNCHANGED << prog, user_data_dir, unit, session, error_count, start_mode,
                  stop_requested, now, page, message_A, message_B, current_msg,
                  current_sender, msg_origin, call, final_message, hist >>

\* if not os.path.exists(EDGE_USER_DATA_PATH): raise FileNotFoundError, which
\* the entry point's own `except FileNotFoundError` reports.  The Session
\* built next (seed=int(time.time())) is the Session of Init.
W_CheckEnv ==
  /\ pc = "w_run"
  /\ IF user_data_dir THEN Goto("w_launch") ELSE Finish("setup_failed")
  /\ UNCHANGED << prog, user_data_dir, unit, session, error_count, start_mode,
                  stop_requested, now, page, message_A, message_B, current_msg,
                  current_sender, msg_origin, call, final_message, hist >>

\* The browser launch, the two page loads and (GeminiStation) the stop
\* check before them and the page-stability waits after them.  Whatever is
\* raised here reaches the entry point's `except Exception`.
W_Launch ==
  /\ pc = "w_launch"
  /\ IF prog = "GeminiStation" /\ stop_requested
     THEN Finish("crashed") /\ hist' = [hist EXCEPT !.cause = "cancelled"]
     ELSE \/ Goto("w_countdown") /\ UNCHANGED hist
          \/ Finish("crashed") /\ UNCHANGED hist
          \/ prog = "GeminiStation" /\ StartupReadinessTimeout
  /\ UNCHANGED << prog, user_data_dir, unit, session, error_count, start_mode,
                  stop_requested, now, page, message_A, message_B, current_msg,
                  current_sender, msg_origin, call, final_message >>

\* The manual set-up countdown (GeminiStation: with its stop check), then
\* the call of run_orchestrator.
W_Countdown ==
  /\ pc = "w_countdown"
  /\ IF prog = "GeminiStation" /\ stop_requested
     THEN Finish("crashed") /\ hist' = [hist EXCEPT !.cause = "cancelled"]
     ELSE Goto("outer") /\ hist' = [hist EXCEPT !.entered = TRUE]
  /\ UNCHANGED << prog, user_data_dir, unit, session, error_count, start_mode,
                  stop_requested, now, page, message_A, message_B, current_msg,
                  current_sender, msg_origin, call, final_message >>

\* ------------------------------------------------------ send_message_robust
CallSend(to, msg, origin, ret) ==
  /\ call' = [to |-> to, msg |-> msg, origin |-> origin, ret |-> ret,
              known |-> 0, shown |-> FALSE]
  /\ Goto("send")

\* the value send_message_robust returns: an element count, or None (0)
Return(n) ==
  /\ call' = [NoCall EXCEPT !.to = call.to, !.known = n, !.shown = call.shown]
  /\ Goto(call.ret)

Locked(s, b) == [s EXCEPT !.task_lock = b]

\* Variant: send_message_robust without its finally clause.
FinallyKeepsLock(s) == s

\* finally: session.task_lock = False (two-party send_message_robust)

Finally(s) == Locked(s, FALSE)

\* What a committed submission adds to the recipient's page.  In
\* GeminiStation the user bubble is not matched by the message selector.
Submit(pg, msg, origin) ==
  IF prog = "GeminiStation"
  THEN [pg EXCEPT !.awaiting = TRUE]
  ELSE [count |-> pg.count + 1, text |-> msg, origin |-> origin,
        awaiting |-> TRUE]

\* Entry: the empty-message guard, then (two-party) the lock and the
\* before-snapshot.  Station_Optimized reads TYPO_PROBABILITY before `try`.
SendEnter ==
  /\ pc = "send"
  /\ IF IsBlank(call.msg)
     THEN /\ Return(IF prog = "GeminiStation" THEN 0 ELSE page[call.to].count)
          /\ hist' = TurnBegun(hist, call.to)
          /\ UNCHANGED session
     ELSE IF prog = "Station_Optimized"
             /\ "TYPO_PROBABILITY" \notin DOMAIN session.behavioral_params
     THEN /\ Raise
          /\ call' = NoCall
          /\ hist' = TurnFailed(TurnBegun(hist, call.to))
          /\ UNCHANGED session
     ELSE /\ session' = IF prog \in TwoParty THEN Locked(session, TRUE) ELSE session
          /\ call' = [call EXCEPT !.known = page[call.to].count]
          /\ hist' = TurnBegun(hist, call.to)
          /\ Goto("send_act")
  /\ UNCHANGED << prog, user_data_dir, unit, error_count, start_mode, stop_requested, now, page,
                  message_A, message_B, current_msg, current_sender,
                  msg_origin, final_message >>

\* Filling the input and clicking: the click commits the message, or has
\* no effect on the page, or a Playwright call raises (finally: unlock).
SendAct ==
  /\ pc = "send_act"
  /\ \/ /\ prog = "GeminiStation" \/ page[call.to].count < ElemCap(prog)
        /\ page' = [page EXCEPT ![call.to] = Submit(@, call.msg, call.origin)]
        /\ call' = [call EXCEPT !.shown = TRUE]
        /\ hist' = IF prog \in TwoParty THEN [hist EXCEPT !.last_to = call.to] ELSE hist
        /\ Goto("send_confirm")
        /\ UNCHANGED session
     \/ /\ Goto("send_confirm")
        /\ UNCHANGED << page, call, session, hist >>
     \/ /\ Raise
        /\ session' = IF prog \in TwoParty THEN Finally(session) ELSE session
        /\ call' = NoCall
        /\ hist' = TurnFailed(hist)
        /\ UNCHANGED page
  /\ UNCHANGED << prog, user_data_dir, unit, error_count, start_mode, stop_requested, now,
                  message_A, message_B, current_msg, current_sender,
                  msg_origin, final_message >>

\* Waiting for the own message to show.  GeminiStation ignores the result
\* of wait_for_initial_change; the others wait for the element count to
\* exceed count_before and raise on timeout.  finally: unlock.
SendConfirm ==
  /\ pc = "send_confirm"
  /\ session' = IF prog \in TwoParty THEN Finally(session) ELSE session
  /\ IF prog = "GeminiStation"
     THEN Return(0) /\ UNCHANGED hist
     ELSE IF page[call.to].count > call.known
     THEN Return(page[call.to].count) /\ UNCHANGED hist
     ELSE Raise /\ call' = NoCall /\ hist' = TurnFailed(hist)
  /\ UNCHANGED << prog, user_data_dir, unit, error_count, start_mode, stop_requested, now, page,
                  message_A, message_B, current_msg, current_sender,
                  msg_origin, final_message >>

\* ------------------------------------------- the L4 handler (except Exception)
\* Variant: the threshold test off by one.
ThresholdReachedEarly(n) == n >= MAX_ERRORS - 1

\* if error_count >= MAX_ERRORS

ThresholdReached(n) == n >= MAX_ERRORS

\* History: a streak is the failures caught since the start, the last
\* completed cycle or the end of the previous streak, and a streak ends when
\* it is MAX_ERRORS long; streak_id is the Session identity its first
\* failure found.  A caught failure ends the pass, and with it what the pass
\* had waited for.
StreakOpen(h) == 0 < h.streak /\ h.streak < MAX_ERRORS

CountStreak(h, s) ==
  [h EXCEPT !.streak = IF StreakOpen(h) THEN @ + 1 ELSE 1,
            !.streak_id = IF StreakOpen(h) THEN @ ELSE Identity(s),
            !.waited = "-"]

\* Variant: the handler resuming inside the cycle.
CycleTop == IF prog = "GeminiStation" THEN "cycle" ELSE "o_get_A"

\* Where the handler leaves the coordinator: the `while True` of the outer
\* loop, whose body starts with the handshake.
LoopTop == "outer"

\* What the handler writes out, kept in unit when the handler is looked at
\* on its own: a sequence of <<kind, error count>>.
Reported(u, reports) ==
  IF u.fn = "handler" THEN [u EXCEPT !.reports = @ \o reports] ELSE u

\* GeminiStation: context.emit_error_count(error_count), then the ERROR log
\* with the count; Station_Optimized: the ERROR log with the count.
ErrorReport(p, n) ==
  IF p = "GeminiStation"
  THEN << <<"error_count_event", n>>, <<"error_log", n>> >>
  ELSE << <<"error_log", n>> >>

\* the CRITICAL log of the threshold, written before the sleep
ThresholdReport(n) == << <<"threshold_log", n>> >>

\* Variant: the rotation made without a word.
RotationUnreported(p) == << >>

\* the CRITICAL log of the identity reset, written before Session(...), and
\* after the reset GeminiStation's emit_error_count(0) and the SUCCESS log
RotationReport(p) ==
  IF p = "GeminiStation"
  THEN << <<"rotation_log", 0>>, <<"error_count_event", 0>>, <<"reborn_log", 0>> >>
  ELSE << <<"rotation_log", 0>>, <<"reborn_log", 0>> >>

\* error_count += 1, the report, and the threshold test.
H_Catch ==
  /\ pc = "except"
  /\ error_count' = error_count + 1
  /\ unit' = Reported(unit, ErrorReport(prog, error_count'))
  /\ hist' = IF ThresholdReached(error_count')
             THEN TurnOver(CountStreak(hist, session))
             ELSE [CountStreak(hist, session) EXCEPT !.cause = "-"]
  /\ IF ThresholdReached(error_count') THEN Goto("cooldown") ELSE Goto(LoopTop)
  /\ UNCHANGED << prog, user_data_dir, session, start_mode, stop_requested, now, page,
                  message_A, message_B, current_msg, current_sender,
                  msg_origin, call, final_message >>

\* Variant: the handler looking at the stop flag before it sleeps.
H_Cooldown_Stoppable ==
  /\ pc = "cooldown"
  /\ hist.rotations < MaxRotations
  /\ IF stop_requested
     THEN Finish("stopped") /\ UNCHANGED << now, hist, unit >>
     ELSE /\ \E frustration_wait_s \in {FRUSTRATION_MIN_S, FRUSTRATION_MAX_S} :
               now' = now + frustration_wait_s
          /\ hist' = [hist EXCEPT !.sleeps = @ + 1]
          /\ unit' = Reported(unit, ThresholdReport(error_count))
          /\ Goto("rotate")
  /\ UNCHANGED << prog, user_data_dir, session, error_count, start_mode, stop_requested, page,
                  message_A, message_B, current_msg, current_sender,
                  msg_origin, call, final_message >>

\* time.sleep(session.rng.uniform(15, 45))
H_Cooldown ==
  /\ pc = "cooldown"
  /\ hist.rotations < MaxRotations
  /\ \E frustration_wait_s \in {FRUSTRATION_MIN_S, FRUSTRATION_MAX_S} :
       now' = now + frustration_wait_s
  /\ hist' = [hist EXCEPT !.sleeps = @ + 1]
  /\ unit' = Reported(unit, ThresholdReport(error_count))
  /\ Goto("rotate")
  /\ UNCHANGED << prog, user_data_dir, session, error_count, start_mode, stop_requested, page,
                  message_A, message_B, current_msg, current_sender,
                  msg_origin, call, final_message >>

\* Variant: the replacement built from the seed already in use.
ReseededInPlace(p, old, t) == Session(p, old.session_seed)

\* Session(seed=int(time.time())), replacing the Session old at time t

ReplacementSession(p, old, t) == Session(p, t)

\* session = Session(seed=int(time.time())); error_count = 0;
\* GeminiStation also sets start_mode = 'new'.
H_Rotate ==
  /\ pc = "rotate"
  /\ session' = ReplacementSession(prog, session, now)
  /\ error_count' = 0
  /\ start_mode' = IF prog = "GeminiStation" THEN "new" ELSE start_mode
  /\ hist' = [hist EXCEPT !.rotations = @ + 1,
                          !.discarded_seed = session.session_seed,
                          !.cause = "-"]
  /\ unit' = Reported(unit, RotationReport(prog))
  /\ Goto(LoopTop)
  /\ UNCHANGED << prog, user_data_dir, stop_requested, now, page, message_A, message_B,
                  current_msg, current_sender, msg_origin, call,
                  final_message >>

\* ------------------------------------ GeminiStation/orchestrator.py
\* Whether the call wait_for_ai_response(page, name, html, count, session)
\* binds to the function's parameters.
WaitForAiResponseCall ==
  IF WAIT_FOR_AI_RESPONSE_ARGS = WAIT_FOR_AI_RESPONSE_PARAMS
  THEN "enter" ELSE "TypeError"

\* Variant: a persona table that holds the key.
ThinkingDelayFound(s) == "value"

\* session.behavioral_params['P_THINKING_DELAY']
ThinkingDelayLookup(s) ==
  IF "P_THINKING_DELAY" \in DOMAIN s.behavioral_params
  THEN "value" ELSE "KeyError"

\* Variant: the outer loop without its stop check.
G_StopCheck0_NoCheck ==
  /\ prog = "GeminiStation"
  /\ pc = "outer"
  /\ Goto("handshake")
  /\ UNCHANGED << prog, user_data_dir, unit, session, error_count, start_mode,
                  stop_requested, now, page, message_A, message_B, current_msg,
                  current_sender, msg_origin, call, final_message, hist >>

\* stage 0: the stop check at the top of the outer loop
G_StopCheck0 ==
  /\ prog = "GeminiStation"
  /\ pc = "outer"
  /\ IF stop_requested THEN Finish("stopped") ELSE Goto("handshake")
  /\ UNCHANGED << prog, user_data_dir, unit, session, error_count, start_mode, stop_requested, now,
                  page, message_A, message_B, current_msg, current_sender,
                  msg_origin, call, final_message, hist >>

\* Variant: the start command sent without the blank-page test.
G_HandshakeNew_NoTest ==
  /\ pc = "handshake"
  /\ start_mode = "new"
  /\ \/ /\ CallSend("A", START_CMD_MSG, "relay", "g_hs_wait")
        /\ UNCHANGED hist
     \/ ReadinessTimeout /\ UNCHANGED call
  /\ UNCHANGED << prog, user_data_dir, unit, session, error_count, start_mode, stop_requested, now,
                  page, message_A, message_B, current_msg, current_sender,
                  msg_origin, final_message >>

\* start_mode == 'new': wait_for_page_stability(A), then the blank-page test
G_HandshakeNew ==
  /\ pc = "handshake"
  /\ start_mode = "new"
  /\ \/ /\ IF page["A"].count = 0
           THEN CallSend("A", START_CMD_MSG, "relay", "g_hs_wait")
           ELSE Goto("cycle") /\ UNCHANGED call
        /\ UNCHANGED hist
     \/ ReadinessTimeout /\ UNCHANGED call
  /\ UNCHANGED << prog, user_data_dir, unit, session, error_count, start_mode, stop_requested, now,
                  page, message_A, message_B, current_msg, current_sender,
                  msg_origin, final_message >>

\* start_mode == 'resume_from_a'
G_HandshakeResumeA ==
  /\ pc = "handshake"
  /\ start_mode = "resume_from_a"
  /\ \/ Goto("cycle") /\ UNCHANGED hist
     \/ ReadinessTimeout
  /\ UNCHANGED << prog, user_data_dir, unit, session, error_count, start_mode, stop_requested, now,
                  page, message_A, message_B, current_msg, current_sender,
                  msg_origin, call, final_message >>

\* Variant: a completion wait for Agent B before its message is extracted.
G_HandshakeResumeB_Waits ==
  /\ pc = "handshake"
  /\ start_mode = "resume_from_b"
  /\ \/ /\ ~page["B"].awaiting
        /\ message_B' = page["B"].text
        /\ msg_origin' = page["B"].origin
        /\ hist' = [hist EXCEPT !.waited = "B"]
        /\ Goto("g_rb_send")
     \/ Raise /\ UNCHANGED << message_B, msg_origin, hist >>
  /\ UNCHANGED << prog, user_data_dir, unit, session, error_count, start_mode,
                  stop_requested, now, page, message_A, current_msg,
                  current_sender, call, final_message >>

\* start_mode == 'resume_from_b': wait_for_page_stability(B) and
\* message_B = get_latest_message_safe(page_B)
G_HandshakeResumeB ==
  /\ pc = "handshake"
  /\ start_mode = "resume_from_b"
  /\ \/ /\ message_B' = page["B"].text
        /\ msg_origin' = page["B"].origin
        /\ Goto("g_rb_send")
        /\ UNCHANGED hist
     \/ ReadinessTimeout /\ UNCHANGED << message_B, msg_origin >>
     \/ Raise /\ UNCHANGED << message_B, msg_origin, hist >>
  /\ UNCHANGED << prog, user_data_dir, unit, session, error_count, start_mode, stop_requested, now,
                  page, message_A, current_msg, current_sender, call,
                  final_message >>

\* wait_for_page_stability(A); send_message_robust(page_A, message_B, ...)
G_ResumeBSend ==
  /\ pc = "g_rb_send"
  /\ \/ CallSend("A", message_B, "B", "g_hs_wait") /\ UNCHANGED hist
     \/ ReadinessTimeout /\ UNCHANGED call
  /\ UNCHANGED << prog, user_data_dir, unit, session, error_count, start_mode, stop_requested, now,
                  page, message_A, message_B, current_msg, current_sender,
                  msg_origin, final_message >>

\* the handshake's wait_for_ai_response(page_A, ..., session)
G_HandshakeWait ==
  /\ pc = "g_hs_wait"
  /\ IF WaitForAiResponseCall = "enter"
     THEN Goto("wait_ai") /\ UNCHANGED hist
     ELSE Raise /\ hist' = TurnFailed(hist)
  /\ call' = NoCall
  /\ UNCHANGED << prog, user_data_dir, unit, session, error_count, start_mode, stop_requested, now,
                  page, message_A, message_B, current_msg, current_sender,
                  msg_origin, final_message >>

\* stop checkpoint 1, at the top of the inner loop
G_StopCheck1 ==
  /\ pc = "cycle"
  /\ prog = "GeminiStation"
  /\ IF stop_requested THEN Finish("stopped") ELSE Goto("g_get_A")
  /\ UNCHANGED << prog, user_data_dir, unit, session, error_count, start_mode, stop_requested, now,
                  page, message_A, message_B, current_msg, current_sender,
                  msg_origin, call, final_message, hist >>

\* message_A = get_latest_message_safe(page_A): '' when no reply container
\* exists
G_GetA ==
  /\ pc = "g_get_A"
  /\ \/ /\ message_A' = page["A"].text
        /\ msg_origin' = page["A"].origin
        /\ Goto("g_term")
     \/ Raise /\ UNCHANGED << message_A, msg_origin >>
  /\ UNCHANGED << prog, user_data_dir, unit, session, error_count, start_mode, stop_requested, now,
                  page, message_B, current_msg, current_sender, call,
                  final_message, hist >>

\* if config.TERMINATION_PHRASE in message_A: handle_termination; break
G_TermCheck ==
  /\ pc = "g_term"
  /\ IF Contains(message_A, TERMINATION_PHRASE)
     THEN final_message' = message_A /\ Finish("terminated")
     ELSE Goto("g_fwd_B") /\ UNCHANGED final_message
  /\ UNCHANGED << prog, user_data_dir, unit, session, error_count, start_mode, stop_requested, now,
                  page, message_A, message_B, current_msg, current_sender,
                  msg_origin, call, hist >>

\* wait_for_page_stability(B), then the thinking-delay lookup.  The code
\* after a successful lookup (stop checkpoint 2 onwards) starts at
\* "g_stop2".
G_ForwardB ==
  /\ pc = "g_fwd_B"
  /\ \/ ReadinessTimeout
     \/ /\ IF ThinkingDelayLookup(session) = "value" THEN Goto("g_stop2") ELSE Raise
        /\ UNCHANGED hist
  /\ UNCHANGED << prog, user_data_dir, unit, session, error_count, start_mode, stop_requested, now,
                  page, message_A, message_B, current_msg, current_sender,
                  msg_origin, call, final_message >>

\* ------------------------------------------------- Station_Optimized.py
\* Variant: the correction phrase taking the place of the message.
HumanizeReplacing(message, s) ==
  IF s.persona_name = "new_user"
  THEN { pre \o message \o suf : pre \in {<<>>, <<"PREFIX">>},
                                 suf \in {<<>>, <<"SUFFIX">>} }
  ELSE { message, <<"CORRECTION", " ">> }

\* _humanize_prompt: the texts it may return for a message, by persona.
\* new_user: a prefix and a suffix, each added or not; experienced_user: a
\* correction phrase and a space put in front, or the message unchanged.
HumanizePrompt(message, s) ==
  IF s.persona_name = "new_user"
  THEN { pre \o message \o suf : pre \in {<<>>, <<"PREFIX">>},
                                 suf \in {<<>>, <<"SUFFIX">>} }
  ELSE { message, <<"CORRECTION", " ">> \o message }

\* Variant: the wait returning at once.
NoWait(p, current_len, next) == Goto(next)

\* wait_for_response_loop(page, current_len, ...): returns once the element
\* count exceeds current_len, raises when it has not by the timeout.
WaitForResponseLoop(p, current_len, next) ==
  \/ page[p].count > current_len /\ Goto(next)
  \/ ~(page[p].count > current_len) /\ Raise

\* get_latest_message_safe(page, ...): the text of the last element the
\* selector matches; raises when there is none (or on any Playwright error).
\* In Station_Optimized the wait for the busy signal inside it catches only
\* PlaywrightTimeoutError, while expect(...) signals its timeout with an
\* AssertionError: a reply still being generated makes the call raise, it
\* is not extracted by force (the callers' Raise branch).
GetLatest(p) == page[p].text

\* scene handler: len_A == 0, len_A odd, or neither
O_Handshake ==
  /\ prog = "Station_Optimized"
  /\ pc = "outer"
  /\ LET len_A == page["A"].count IN
       IF len_A = 0
       THEN CallSend("A", START_CMD_MSG, "relay", "o_hs_wait")
       ELSE IF len_A % 2 # 0
       THEN call' = [NoCall EXCEPT !.to = "A", !.known = len_A] /\ Goto("o_hs_wait")
       ELSE call' = NoCall /\ Goto("o_get_A")
  /\ UNCHANGED << prog, user_data_dir, unit, session, error_count, start_mode, stop_requested, now,
                  page, message_A, message_B, current_msg, current_sender,
                  msg_origin, final_message, hist >>

\* len_A = wait_for_response_loop(page_A, len_A, ...)
O_HandshakeWait ==
  /\ pc = "o_hs_wait"
  /\ WaitForResponseLoop("A", call.known, "o_get_A")
  /\ call' = NoCall
  /\ hist' = IF pc' = "o_get_A"
             THEN [TurnOver(hist) EXCEPT !.waited = "A"] ELSE TurnFailed(hist)
  /\ UNCHANGED << prog, user_data_dir, unit, session, error_count, start_mode, stop_requested, now,
                  page, message_A, message_B, current_msg, current_sender,
                  msg_origin, final_message >>

\* message_A, _ = get_latest_message_safe(page_A, ...)
O_GetA ==
  /\ pc = "o_get_A"
  /\ \/ /\ page["A"].count > 0
        /\ message_A' = GetLatest("A")
        /\ msg_origin' = page["A"].origin
        /\ Goto("o_term")
     \/ Raise /\ UNCHANGED << message_A, msg_origin >>
  /\ UNCHANGED << prog, user_data_dir, unit, session, error_count, start_mode, stop_requested, now,
                  page, message_B, current_msg, current_sender, call,
                  final_message, hist >>

\* Variant: handle_termination reports but does not leave the loop.
O_TermCheck_NoExit ==
  /\ pc = "o_term"
  /\ IF Contains(message_A, TERMINATION_PHRASE)
     THEN final_message' = message_A /\ pc' = "o_send_B" /\ outcome' = "terminated"
     ELSE Goto("o_send_B") /\ UNCHANGED final_message
  /\ UNCHANGED << prog, user_data_dir, unit, session, error_count, start_mode, stop_requested, now,
                  page, message_A, message_B, current_msg, current_sender,
                  msg_origin, call, hist >>

\* if TERMINATION_PHRASE in message_A: handle_termination -> sys.exit(0)
\* (SystemExit is not an Exception: the handler does not catch it)
O_TermCheck ==
  /\ pc = "o_term"
  /\ IF Contains(message_A, TERMINATION_PHRASE)
     THEN final_message' = message_A /\ Finish("terminated")
     ELSE Goto("o_send_B") /\ UNCHANGED final_message
  /\ UNCHANGED << prog, user_data_dir, unit, session, error_count, start_mode, stop_requested, now,
                  page, message_A, message_B, current_msg, current_sender,
                  msg_origin, call, hist >>

\* send_message_robust(page_B, _humanize_prompt(message_A, session), ...)
O_SendB ==
  /\ pc = "o_send_B"
  /\ \E humanized_message \in HumanizePrompt(message_A, session) :
       CallSend("B", humanized_message, "A", "o_wait_B")
  /\ UNCHANGED << prog, user_data_dir, unit, session, error_count, start_mode, stop_requested, now,
                  page, message_A, message_B, current_msg, current_sender,
                  msg_origin, final_message, hist >>

\* wait_for_response_loop(page_B, count_B_after_send, ...)
O_WaitB ==
  /\ pc = "o_wait_B"
  /\ WaitForResponseLoop("B", call.known, "o_get_B")
  /\ call' = NoCall
  /\ hist' = IF pc' = "o_get_B"
             THEN [TurnOver(hist) EXCEPT !.waited = "B"] ELSE TurnFailed(hist)
  /\ UNCHANGED << prog, user_data_dir, unit, session, error_count, start_mode, stop_requested, now,
                  page, message_A, message_B, current_msg, current_sender,
                  msg_origin, final_message >>

\* Variant: error_count reset once the A -> B turn has succeeded.
O_GetB_Resets ==
  /\ pc = "o_get_B"
  /\ \/ /\ page["B"].count > 0
        /\ message_B' = GetLatest("B")
        /\ msg_origin' = page["B"].origin
        /\ error_count' = 0
        /\ Goto("o_send_A")
     \/ Raise /\ UNCHANGED << message_B, msg_origin, error_count >>
  /\ UNCHANGED << prog, user_data_dir, unit, session, start_mode, stop_requested, now,
                  page, message_A, current_msg, current_sender, call,
                  final_message, hist >>

\* message_B, _ = get_latest_message_safe(page_B, ...)
O_GetB ==
  /\ pc = "o_get_B"
  /\ \/ /\ page["B"].count > 0
        /\ message_B' = GetLatest("B")
        /\ msg_origin' = page["B"].origin
        /\ Goto("o_send_A")
     \/ Raise /\ UNCHANGED << message_B, msg_origin >>
  /\ UNCHANGED << prog, user_data_dir, unit, session, error_count, start_mode, stop_requested, now,
                  page, message_A, current_msg, current_sender, call,
                  final_message, hist >>

\* Variant: Agent B's reply tested for the termination phrase before it
\* is forwarded.
O_SendA_Checked ==
  /\ pc = "o_send_A"
  /\ IF Contains(message_B, TERMINATION_PHRASE)
     THEN final_message' = message_B /\ Finish("terminated") /\ UNCHANGED call
     ELSE CallSend("A", message_B, "B", "o_wait_A") /\ UNCHANGED final_message
  /\ UNCHANGED << prog, user_data_dir, unit, session, error_count, start_mode, stop_requested, now,
                  page, message_A, message_B, current_msg, current_sender,
                  msg_origin, hist >>

\* count_A_after_send = send_message_robust(page_A, message_B, ...)
O_SendA ==
  /\ pc = "o_send_A"
  /\ CallSend("A", message_B, "B", "o_wait_A")
  /\ UNCHANGED << prog, user_data_dir, unit, session, error_count, start_mode, stop_requested, now,
                  page, message_A, message_B, current_msg, current_sender,
                  msg_origin, final_message, hist >>

\* wait_for_response_loop(page_A, count_A_after_send, ...), and on its
\* return error_count = 0: the cycle is complete
O_WaitA ==
  /\ pc = "o_wait_A"
  /\ WaitForResponseLoop("A", call.known, "o_get_A")
  /\ call' = NoCall
  /\ error_count' = IF pc' = "o_get_A" THEN 0 ELSE error_count
  /\ hist' = IF pc' = "o_get_A"
             THEN [TurnOver(hist) EXCEPT !.streak = 0, !.waited = "A"]
             ELSE TurnFailed(hist)
  /\ UNCHANGED << prog, user_data_dir, unit, session, start_mode, stop_requested, now, page,
                  message_A, message_B, current_msg, current_sender,
                  msg_origin, final_message >>

\* ------------------------------------------- 3_agent_ide_orchestrator.py

\* Variant: Coder's output going to QA only while QA's page is blank.
Route_ByQASurface(sender, msg) ==
  IF sender = "Planner" THEN "Coder"
  ELSE IF sender = "Coder"
  THEN IF StartsWith(msg, PHRASE_PATCH_ACCEPT) THEN "Planner"
       ELSE IF page["QA"].count > 0 THEN "Planner"
       ELSE "QA"
  ELSE IF sender = "QA" THEN "Coder"
  ELSE ""

\* Variant: QA's acceptance sent straight to Planner.
Route_QAAcceptToPlanner(sender, msg) ==
  IF sender = "Planner" THEN "Coder"
  ELSE IF sender = "Coder"
  THEN IF StartsWith(msg, PHRASE_PATCH_ACCEPT) THEN "Planner" ELSE "QA"
  ELSE IF sender = "QA"
  THEN IF StartsWith(msg, PHRASE_PATCH_ACCEPT) THEN "Planner" ELSE "Coder"
  ELSE ""

\* Variant: the QA branch without its final else.
Route_NoQADefault(sender, msg) ==
  IF sender = "Planner" THEN "Coder"
  ELSE IF sender = "Coder"
  THEN IF StartsWith(msg, PHRASE_PATCH_ACCEPT) THEN "Planner" ELSE "QA"
  ELSE IF sender = "QA"
  THEN IF StartsWith(msg, PHRASE_PATCH_ACCEPT) THEN "Coder"
       ELSE IF StartsWith(msg, PHRASE_PATCH_REJECT) THEN "Coder"
       ELSE ""
  ELSE ""

\* The routing rules of run_agent_pool_orchestrator: next_agent_name, ""
\* when no branch assigns it.
Route(sender, msg) ==
  IF sender = "Planner" THEN "Coder"
  ELSE IF sender = "Coder"
  THEN IF StartsWith(msg, PHRASE_PATCH_ACCEPT) THEN "Planner" ELSE "QA"
  ELSE IF sender = "QA"
  THEN IF StartsWith(msg, PHRASE_PATCH_ACCEPT) THEN "Coder"
       ELSE IF StartsWith(msg, PHRASE_PATCH_REJECT) THEN "Coder"
       ELSE "Coder"
  ELSE ""

\* current_msg = get_latest_message_safe(agent_planner, "Planner");
\* current_sender = "Planner"
P_Init ==
  /\ pc = "p_init"
  /\ \/ /\ page["Planner"].count > 0
        /\ current_msg' = GetLatest("Planner")
        /\ msg_origin' = page["Planner"].origin
        /\ current_sender' = "Planner"
        /\ Goto("p_loop")
     \/ Raise /\ UNCHANGED << current_msg, current_sender, msg_origin >>
  /\ UNCHANGED << prog, user_data_dir, unit, session, error_count, start_mode, stop_requested, now,
                  page, message_A, message_B, call, final_message, hist >>

\* Variant: the phrase recognised only at the start of the message.
IsTerminationPrefixOnly(msg) == StartsWith(msg, PHRASE_TASK_COMPLETE)

\* if PHRASE_TASK_COMPLETE in current_msg

IsTermination(msg) == Contains(msg, PHRASE_TASK_COMPLETE)

\* A. the termination check at the top of the loop
P_TermCheck ==
  /\ pc = "p_loop"
  /\ IF IsTermination(current_msg)
     THEN Finish("terminated")
     ELSE Goto("p_route")
  /\ UNCHANGED << prog, user_data_dir, unit, session, error_count, start_mode, stop_requested, now,
                  page, message_A, message_B, current_msg, current_sender,
                  msg_origin, call, final_message, hist >>

\* B. routing, and C.1 send_message_robust(next_agent_page, current_msg, ...)
\* or, when no next hop was found, the FATAL log and break
P_Route ==
  /\ pc = "p_route"
  /\ LET next_agent_name == Route(current_sender, current_msg) IN
       IF next_agent_name # ""
       THEN CallSend(next_agent_name, current_msg, msg_origin, "p_recv")
       ELSE Finish("no_next_hop") /\ UNCHANGED call
  /\ UNCHANGED << prog, user_data_dir, unit, session, error_count, start_mode, stop_requested, now,
                  page, message_A, message_B, current_msg, current_sender,
                  msg_origin, final_message, hist >>

\* C.2 response_text = get_latest_message_safe(next_agent_page, ...);
\* C.3 current_msg = response_text; current_sender = next_agent_name
P_Receive ==
  /\ pc = "p_recv"
  /\ \/ /\ page[call.to].count > 0
        /\ current_msg' = GetLatest(call.to)
        /\ msg_origin' = page[call.to].origin
        /\ current_sender' = call.to
        /\ Goto("p_loop")
     \/ Raise /\ UNCHANGED << current_msg, current_sender, msg_origin >>
  /\ call' = NoCall
  /\ UNCHANGED << prog, user_data_dir, unit, session, error_count, start_mode, stop_requested, now,
                  page, message_A, message_B, final_message, hist >>

\* ------------------------------------------------------------------- Next
\* the environment and send_message_robust, common to the programs
Common ==
  \/ \E p \in Pages : AgentReply(p)
  \/ SendEnter
  \/ SendAct
  \/ SendConfirm

\* the two-party relays: GeminiStation and Station_Optimized
NextRelay ==
  \/ Common
  \/ stop
  \/ Tick
  \/ W_CheckEnv
  \/ W_Launch
  \/ W_Countdown
  \/ H_Catch
  \/ H_Cooldown
  \/ H_Rotate
  \/ G_StopCheck0
  \/ G_HandshakeNew
  \/ G_HandshakeResumeA
  \/ G_HandshakeResumeB
  \/ G_ResumeBSend
  \/ G_HandshakeWait
  \/ G_StopCheck1
  \/ G_GetA
  \/ G_TermCheck
  \/ G_ForwardB
  \/ O_Handshake
  \/ O_HandshakeWait
  \/ O_GetA
  \/ O_TermCheck
  \/ O_SendB
  \/ O_WaitB
  \/ O_GetB
  \/ O_SendA
  \/ O_WaitA

\* the three-party relay
NextPool ==
  \/ Common
  \/ P_Init
  \/ P_TermCheck
  \/ P_Route
  \/ P_Receive

\* --------------------------------------------- artifact stripping alone
\* The stripping of get_latest_message_safe applied to a raw text, and then
\* once more to its own result.
InitStrip ==
  /\ prog = "ide3"
  /\ user_data_dir = TRUE
  /\ unit \in { [fn |-> "strip", impl |-> i, raw_text |-> t,
                  cleaned |-> NoText, again |-> NoText] :
                  i \in {"ide3", "full_agent"}, t \in RawTexts }
  /\ pc = "strip"
  /\ outcome = "running"
  /\ now = 0
  /\ session = Session(prog, 0)
  /\ error_count = 0
  /\ start_mode = "new"
  /\ stop_requested = FALSE
  /\ page = [q \in Pages |-> BlankPage]
  /\ message_A = NoText
  /\ message_B = NoText
  /\ current_msg = NoText
  /\ current_sender = "-"
  /\ msg_origin = "-"
  /\ call = NoCall
  /\ final_message = NoText
  /\ hist = InitHist(session)

\* cleaned = raw_text.replace(...).replace(...).strip()
StripOnce ==
  /\ pc = "strip"
  /\ unit' = [unit EXCEPT !.cleaned = CleanText(unit.impl, unit.raw_text)]
  /\ Goto("strip_again")
  /\ UNCHANGED << prog, user_data_dir, session, error_count, start_mode,
                  stop_requested, now, page, message_A, message_B, current_msg,
                  current_sender, msg_origin, call, final_message, hist >>

\* the same stripping applied to the cleaned text
StripAgain ==
  /\ pc = "strip_again"
  /\ unit' = [unit EXCEPT !.again = CleanText(unit.impl, unit.cleaned)]
  /\ Goto("strip_done")
  /\ UNCHANGED << prog, user_data_dir, session, error_count, start_mode,
                  stop_requested, now, page, message_A, message_B, current_msg,
                  current_sender, msg_origin, call, final_message, hist >>

NextStrip ==
  \/ StripOnce
  \/ StripAgain

SpecStrip == InitStrip /\ [][NextStrip]_vars

\* ------------------------------------------------ the turn router alone
\* What one pass of the loop body decides for the message it holds: the
\* termination check (A), then the routing rules (B).
Decision(sender, msg) ==
  IF IsTermination(msg) THEN "break" ELSE Route(sender, msg)

\* The decision is taken for one sender and message in two relay states
\* that differ in everything else: the surfaces of the participants, the
\* time and the Session.
InitRoute ==
  /\ prog = "ide3"
  /\ user_data_dir = TRUE
  /\ page \in InitPages(prog)
  /\ current_sender \in PagesOf(prog)
  /\ current_msg \in Texts3
  /\ unit = [fn |-> "route", surfaces |-> page, first |-> "-", second |-> "-"]
  /\ pc = "route"
  /\ outcome = "running"
  /\ now = 0
  /\ session = Session(prog, 0)
  /\ error_count = 0
  /\ start_mode = "new"
  /\ stop_requested = FALSE
  /\ message_A = NoText
  /\ message_B = NoText
  /\ msg_origin = "-"
  /\ call = NoCall
  /\ final_message = NoText
  /\ hist = InitHist(session)

RouteFirst ==
  /\ pc = "route"
  /\ unit' = [unit EXCEPT !.first = Decision(current_sender, current_msg)]
  /\ Goto("route_later")
  /\ UNCHANGED << prog, user_data_dir, session, error_count, start_mode,
                  stop_requested, now, page, message_A, message_B, current_msg,
                  current_sender, msg_origin, call, final_message, hist >>

\* The run goes on: the surfaces change, time passes, the Session may be
\* another one; the same sender and message come up again.
RouteLater ==
  /\ pc = "route_later"
  /\ page' \in InitPages(prog)
  /\ now' \in {now, now + 1}
  /\ session' = Session(prog, now')
  /\ Goto("route_again")
  /\ UNCHANGED << prog, user_data_dir, unit, error_count, start_mode,
                  stop_requested, message_A, message_B, current_msg,
                  current_sender, msg_origin, call, final_message, hist >>

RouteAgain ==
  /\ pc = "route_again"
  /\ unit' = [unit EXCEPT !.second = Decision(current_sender, current_msg)]
  /\ Goto("route_done")
  /\ UNCHANGED << prog, user_data_dir, session, error_count, start_mode,
                  stop_requested, now, page, message_A, message_B, current_msg,
                  current_sender, msg_origin, call, final_message, hist >>

NextRoute ==
  \/ RouteFirst
  \/ RouteLater
  \/ RouteAgain

SpecRoute == InitRoute /\ [][NextRoute]_vars

\* ------------------------------------------- wait_for_ai_response on its own
\* The function applied to a surface, with the four arguments of its
\* signature, from inside the try block of run_orchestrator's loop.  unit
\* holds the arguments (previous_len, previous_count), the surface the
\* function looks at (len: the innerHTML length of CHAT_AREA_SEL, count: the
\* elements matching MESSAGE_ANCHOR_SEL, thinking and fallback: the
\* indicators not yet hidden) and the locals of the function; before is the
\* length read by the sample before the latest one, samples the number of
\* samples read (3: three or more), ended_by what ended the observation.
InitialChange(u) == u.len # u.previous_len \/ u.count > u.previous_count

InitWait ==
  /\ prog = "GeminiStation"
  /\ user_data_dir = TRUE
  /\ \E l \in 0..MaxRender, c \in 0..MaxRender,
        pl \in 0..MaxRender, pc0 \in 0..MaxRender,
        th \in 0..1, fb \in 0..1 :
       unit = [fn |-> "wait", previous_len |-> pl, previous_count |-> pc0,
               len |-> l, count |-> c, thinking |-> th, fallback |-> fb,
               arrived |-> (l # pl \/ c > pc0),
               initial_change |-> "-", indicators |-> "-", busy |-> "-",
               last_len |-> 0, current_len |-> -1, before |-> -1, samples |-> 0,
               elapsed |-> 0, ended_by |-> "-"]
  /\ pc = "wa_arrival"
  /\ outcome = "running"
  /\ now = 0
  /\ session = Session(prog, 0)
  /\ error_count = 0
  /\ start_mode = "new"
  /\ stop_requested = FALSE
  /\ page = [q \in Pages |-> BlankPage]
  /\ message_A = NoText
  /\ message_B = NoText
  /\ current_msg = NoText
  /\ current_sender = "-"
  /\ msg_origin = "-"
  /\ call = NoCall
  /\ final_message = NoText
  /\ hist = InitHist(session)

Waiting == unit.fn = "wait" /\ pc \in {"wa_arrival", "wa_check", "wa_choose",
             "wa_test", "wa_busy", "wa_sample1", "wa_sample2", "wa_loop",
             "wa_poll"}

\* The surface, while the function runs and as far as the function still
\* looks at it: the rendered length changes, an anchor element is added
\* (counted by the arrival wait only), an indicator shows up or is hidden
\* (looked at until the wait for the indicators is over).
SurfaceAfter(u) ==
  { [u EXCEPT !.len = l] : l \in (0..MaxRender) \ {u.len} }
    \cup { [u EXCEPT !.count = @ + 1] : k \in { k \in {1} :
             pc = "wa_arrival" /\ u.count < MaxRender } }
    \cup { [u EXCEPT !.thinking = 1 - @] : k \in { k \in {1} :
             pc \in {"wa_arrival", "wa_check", "wa_choose", "wa_test",
                     "wa_busy"} } }
    \cup { [u EXCEPT !.fallback = 1 - @] : k \in { k \in {1} :
             pc \in {"wa_arrival", "wa_check", "wa_choose", "wa_test",
                     "wa_busy"} } }

SurfaceChanges ==
  /\ Waiting
  /\ \E u \in SurfaceAfter(unit) :
       unit' = [u EXCEPT !.arrived = @ \/ (pc = "wa_arrival" /\ InitialChange(u))]
  /\ Goto(pc)
  /\ UNCHANGED << prog, user_data_dir, session, error_count, start_mode,
                  stop_requested, now, page, message_A, message_B, current_msg,
                  current_sender, msg_origin, call, final_message, hist >>

\* wait_for_initial_change: True once the length differs from the snapshot
\* or the anchor count exceeds the snapshot's, False when the 30 s pass
\* without that.
WaitForInitialChange ==
  /\ pc = "wa_arrival"
  /\ unit' = [unit EXCEPT !.initial_change = IF InitialChange(unit) THEN "True" ELSE "False"]
  /\ Goto("wa_check")
  /\ UNCHANGED << prog, user_data_dir, session, error_count, start_mode,
                  stop_requested, now, page, message_A, message_B, current_msg,
                  current_sender, msg_origin, call, final_message, hist >>

\* Variant: the result of wait_for_initial_change not looked at.
CheckInitialChange_Ignored ==
  /\ pc = "wa_check"
  /\ unit' = unit
  /\ Goto("wa_choose")
  /\ UNCHANGED << prog, user_data_dir, session, error_count, start_mode,
                  stop_requested, now, page, message_A, message_B, current_msg,
                  current_sender, msg_origin, call, final_message, hist >>

\* if not wait_for_initial_change(...): raise Exception
CheckInitialChange ==
  /\ pc = "wa_check"
  /\ unit' = unit
  /\ IF unit.initial_change = "True" THEN Goto("wa_choose") ELSE Raise
  /\ UNCHANGED << prog, user_data_dir, session, error_count, start_mode,
                  stop_requested, now, page, message_A, message_B, current_msg,
                  current_sender, msg_origin, call, final_message, hist >>

\* indicators_to_wait_for = thinking_indicators if thinking_indicators.count() > 0
\*                          else fallback_indicators
ChooseIndicators ==
  /\ pc = "wa_choose"
  /\ unit' = [unit EXCEPT
        !.indicators = IF unit.thinking > 0 THEN "thinking" ELSE "fallback"]
  /\ Goto("wa_test")
  /\ UNCHANGED << prog, user_data_dir, session, error_count, start_mode,
                  stop_requested, now, page, message_A, message_B, current_msg,
                  current_sender, msg_origin, call, final_message, hist >>

IndicatorCount(u) ==
  IF u.indicators = "thinking" THEN u.thinking ELSE u.fallback

\* if indicators_to_wait_for.count() > 0: ... (otherwise straight to the
\* stability observation)
TestIndicators ==
  /\ pc = "wa_test"
  /\ unit' = unit
  /\ IF IndicatorCount(unit) > 0 THEN Goto("wa_busy") ELSE Goto("wa_sample1")
  /\ UNCHANGED << prog, user_data_dir, session, error_count, start_mode,
                  stop_requested, now, page, message_A, message_B, current_msg,
                  current_sender, msg_origin, call, final_message, hist >>

\* Variant: an error of the indicator wait passed on to the caller.
WaitIndicatorsHidden_Raising ==
  /\ pc = "wa_busy"
  /\ \/ /\ IndicatorCount(unit) = 0
        /\ unit' = [unit EXCEPT !.busy = "hidden"]
        /\ Goto("wa_sample1")
     \/ /\ IndicatorCount(unit) > 0
        /\ unit' = [unit EXCEPT !.busy = "timeout"]
        /\ Goto("wa_sample1")
     \/ /\ unit' = [unit EXCEPT !.busy = "error"]
        /\ Raise
  /\ UNCHANGED << prog, user_data_dir, session, error_count, start_mode,
                  stop_requested, now, page, message_A, message_B, current_msg,
                  current_sender, msg_origin, call, final_message, hist >>

\* try: expect(each indicator).to_be_hidden(timeout=AI_GENERATION_MS)
\* except PlaywrightTimeoutError / except Exception: log a warning.
\* The wait ends with every indicator hidden, with the timeout of expect
\* (an AssertionError) or with another error (a stale element); the two
\* handlers only log, and the function goes on.
WaitIndicatorsHidden ==
  /\ pc = "wa_busy"
  /\ \/ /\ IndicatorCount(unit) = 0
        /\ unit' = [unit EXCEPT !.busy = "hidden"]
     \/ /\ IndicatorCount(unit) > 0
        /\ unit' = [unit EXCEPT !.busy = "timeout"]
     \/ unit' = [unit EXCEPT !.busy = "error"]
  /\ Goto("wa_sample1")
  /\ UNCHANGED << prog, user_data_dir, session, error_count, start_mode,
                  stop_requested, now, page, message_A, message_B, current_msg,
                  current_sender, msg_origin, call, final_message, hist >>

\* last_len = 0; try: current_len = evaluate(innerHTML.length)
\* except Exception: return
SampleFirst ==
  /\ pc = "wa_sample1"
  /\ \/ /\ unit' = [unit EXCEPT !.last_len = 0, !.current_len = unit.len,
                                !.samples = 1]
        /\ Goto("wa_sample2")
     \/ /\ unit' = [unit EXCEPT !.last_len = 0, !.ended_by = "sample_error"]
        /\ Goto("wa_returned")
  /\ UNCHANGED << prog, user_data_dir, session, error_count, start_mode,
                  stop_requested, now, page, message_A, message_B, current_msg,
                  current_sender, msg_origin, call, final_message, hist >>

\* wait_for_timeout(500); current_len = evaluate(innerHTML.length)
\* except Exception: return;  stability_start_time = time.time()
SampleSecond ==
  /\ pc = "wa_sample2"
  /\ \/ /\ unit' = [unit EXCEPT !.current_len = unit.len, !.samples = 2,
                                !.before = unit.current_len, !.elapsed = 0]
        /\ Goto("wa_loop")
     \/ /\ unit' = [unit EXCEPT !.ended_by = "sample_error"]
        /\ Goto("wa_returned")
  /\ UNCHANGED << prog, user_data_dir, session, error_count, start_mode,
                  stop_requested, now, page, message_A, message_B, current_msg,
                  current_sender, msg_origin, call, final_message, hist >>

\* while last_len != current_len: last_len = current_len
StabilityLoop ==
  /\ pc = "wa_loop"
  /\ IF unit.last_len # unit.current_len
     THEN /\ unit' = [unit EXCEPT !.last_len = unit.current_len]
          /\ Goto("wa_poll")
     ELSE /\ unit' = [unit EXCEPT !.ended_by = "equal"]
          /\ Goto("wa_returned")
  /\ UNCHANGED << prog, user_data_dir, session, error_count, start_mode,
                  stop_requested, now, page, message_A, message_B, current_msg,
                  current_sender, msg_origin, call, final_message, hist >>

\* time.time() - stability_start_time, in seconds, by the side of the two
\* numbers it can be compared with: 0 = at most 180, 1 = more than 180 and
\* at most 180000, 2 = more than 180000.
ElapsedClass == 0..2

\* time.time() - stability_start_time > Timeouts.WAIT_FOR_CHANGE_MS: a
\* number of seconds compared with the number 180000.
CeilingExceeded(e) == e = 2

\* wait_for_timeout(CONTENT_STABILITY_MS); try: current_len = evaluate(...)
\* except Exception: break;  if the ceiling is exceeded: break
StabilityPoll ==
  /\ pc = "wa_poll"
  /\ \E e \in ElapsedClass :
       /\ e >= unit.elapsed
       /\ \/ /\ unit' = [unit EXCEPT !.elapsed = e, !.ended_by = "sample_error"]
             /\ Goto("wa_returned")
          \/ /\ CeilingExceeded(e)
             /\ unit' = [unit EXCEPT !.elapsed = e, !.current_len = unit.len,
                                     !.before = unit.current_len,
                                     !.samples = 3, !.ended_by = "ceiling"]
             /\ Goto("wa_returned")
          \/ /\ ~CeilingExceeded(e)
             /\ unit' = [unit EXCEPT !.elapsed = e, !.current_len = unit.len,
                                     !.before = unit.current_len,
                                     !.samples = 3]
             /\ Goto("wa_loop")
  /\ UNCHANGED << prog, user_data_dir, session, error_count, start_mode,
                  stop_requested, now, page, message_A, message_B, current_msg,
                  current_sender, msg_origin, call, final_message, hist >>

NextWait ==
  \/ SurfaceChanges
  \/ WaitForInitialChange
  \/ CheckInitialChange
  \/ ChooseIndicators
  \/ TestIndicators
  \/ WaitIndicatorsHidden
  \/ SampleFirst
  \/ SampleSecond
  \/ StabilityLoop
  \/ StabilityPoll
  \/ H_Catch

SpecWait == InitWait /\ [][NextWait]_vars

\* ------------------------------------------------- the L4 handler alone
\* The handler entered with an exception just caught, whatever the pages
\* show and whatever the count of earlier failures; unit holds what the
\* handler writes out.
InitHandler ==
  /\ prog \in TwoParty
  /\ user_data_dir = TRUE
  /\ unit = [fn |-> "handler", reports |-> << >>]
  /\ pc = "except"
  /\ outcome = "running"
  /\ now \in 0..MaxClock
  /\ session = Session(prog, 0)
  /\ error_count \in 0..(MAX_ERRORS - 1)
  /\ start_mode \in (IF prog = "GeminiStation" THEN StartModes ELSE {"new"})
  /\ stop_requested \in (IF prog = "GeminiStation" THEN BOOLEAN ELSE {FALSE})
  /\ page \in InitPages(prog)
  /\ message_A = NoText
  /\ message_B = NoText
  /\ current_msg = NoText
  /\ current_sender = "-"
  /\ msg_origin = "-"
  /\ call = NoCall
  /\ final_message = NoText
  /\ hist = [InitHist(session) EXCEPT !.entered = TRUE, !.streak = error_count]

NextHandler ==
  \/ H_Catch
  \/ H_Cooldown
  \/ H_Rotate

SpecHandler == InitHandler /\ [][NextHandler]_vars

InitRelay == Init /\ prog \in TwoParty

InitPool == Init /\ prog = "ide3"

SpecRelay == InitRelay /\ [][NextRelay]_vars

SpecPool == InitPool /\ [][NextPool]_vars

\* -------------------------------------------------------------- properties
\* C1: in the two-party relays, after k < MAX_ERRORS consecutive failed
\* turns with no completed cycle between them, error_count = k and the
\* Session still has the seed, persona and behavioural parameters it had
\* before the first of them.
C1_ErrorCountIsStreak ==
  /\ hist.streak < MAX_ERRORS => error_count = hist.streak
  /\ StreakOpen(hist) => Identity(session) = hist.streak_id

C1_TwoFailuresCounted ==
  /\ prog = "Station_Optimized"
  /\ pc = "outer"
  /\ hist.streak = 2
  /\ error_count = 2

\* C2: the cooldown and the Session replacement happen on the third
\* consecutive failure and on no earlier one; the third failure is followed
\* by exactly one cooldown sleep and then one replacement; the new Session's
\* seed differs from the discarded one, and when the outer loop resumes the
\* task lock is clear and error_count is 0.
C2_ThirdFailureRotates ==
  /\ pc \in {"cooldown", "rotate"} =>
       hist.streak = MAX_ERRORS /\ error_count = MAX_ERRORS
  /\ (hist.streak = MAX_ERRORS /\ error_count # 0) => pc \in {"cooldown", "rotate"}
  /\ hist.sleeps = hist.rotations + (IF pc = "rotate" THEN 1 ELSE 0)
  /\ hist.rotations = 0 => Identity(session) = Identity(Session(prog, 0))
  /\ hist.rotations > 0 => session.session_seed # hist.discarded_seed
  /\ (pc = "outer" /\ hist.streak = MAX_ERRORS) =>
       /\ hist.rotations > 0
       /\ error_count = 0
       /\ ~session.task_lock

C2_ResumedAfterRotation ==
  /\ pc = "outer"
  /\ hist.streak = MAX_ERRORS
  /\ hist.sleeps = 1
  /\ hist.rotations = 1
  /\ error_count = 0

\* C3: in the three-party relay a current message that contains
\* TASK_COMPLETED_SUCCESSFULLY anywhere ends the loop at the termination
\* check: the step that leaves the check goes to the terminal state and
\* routes and submits nothing, whoever the sender and whatever the prefix.
C3_TerminationBeforeRouting ==
  [][ (pc = "p_loop" /\ Contains(current_msg, PHRASE_TASK_COMPLETE) /\ pc' # pc)
        => (outcome' = "terminated" /\ pc' = "done" /\ call' = call /\ page' = page)
    ]_vars

C3_AcceptedAndComplete ==
  /\ outcome = "terminated"
  /\ current_sender = "QA"
  /\ StartsWith(current_msg, PHRASE_PATCH_ACCEPT)
  /\ Contains(current_msg, PHRASE_TASK_COMPLETE)

C5_NothingAfterTermination ==
  /\ [](outcome = "terminated" => pc = "done")
  /\ [][ outcome = "terminated" => (pc' = pc /\ page' = page /\ call' = call) ]_vars

C5_TerminatedAfterRelay ==
  /\ prog = "Station_Optimized"
  /\ outcome = "terminated"
  /\ message_B # NoText
  /\ Contains(final_message, TERMINATION_PHRASE)

\* C6: the recipient of the three-party relay is chosen by the table:
\* Planner's message goes to Coder; Coder's goes to Planner when it starts
\* with PATCH_ACCEPT and to QA otherwise; QA's goes to Coder; and the text
\* handed to the send is the current message.
C6_RoutingTable ==
  pc \in {"send", "send_act", "send_confirm", "p_recv"} =>
    /\ current_sender \in {"Planner", "Coder", "QA"}
    /\ current_sender = "Planner" => call.to = "Coder"
    /\ (current_sender = "Coder" /\ StartsWith(current_msg, PHRASE_PATCH_ACCEPT)) =>
         call.to = "Planner"
    /\ (current_sender = "Coder" /\ ~StartsWith(current_msg, PHRASE_PATCH_ACCEPT)) =>
         call.to = "QA"
    /\ current_sender = "QA" => call.to = "Coder"
    /\ pc # "p_recv" => call.msg = current_msg

C6_CoderAcceptToPlanner ==
  /\ pc = "p_recv"
  /\ current_sender = "Coder"
  /\ StartsWith(current_msg, PHRASE_PATCH_ACCEPT)
  /\ call.to = "Planner"
  /\ call.shown

\* C7 as stated (first half): a text produced by QA is never submitted to
\* Planner.
C7_QATextNeverToPlanner ==
  (pc = "send_confirm" /\ call.to = "Planner" /\ call.shown) => call.origin # "QA"

\* C8: routing is total: whenever the routing rules are applied the sender
\* is Planner, Coder or QA and a recipient is selected, so the run never
\* ends in the 'no next-hop agent found' branch.
C8_RoutingTotal ==
  /\ outcome # "no_next_hop"
  /\ pc \in {"p_loop", "p_route"} => current_sender \in {"Planner", "Coder", "QA"}
  /\ pc = "p_route" => Route(current_sender, current_msg) \in {"Planner", "Coder", "QA"}

C8_QAChatterAtRouter ==
  /\ pc = "p_route"
  /\ current_sender = "QA"
  /\ current_msg = <<"w">>

\* C9 as stated: when the send for a QA message that starts with neither
\* PATCH_ACCEPT nor PATCH_REJECT has returned, the message has been
\* submitted to Coder.
C9_QADefaultSubmitted ==
  ( /\ pc = "p_recv"
    /\ current_sender = "QA"
    /\ ~StartsWith(current_msg, PHRASE_PATCH_ACCEPT)
    /\ ~StartsWith(current_msg, PHRASE_PATCH_REJECT) )
    => (call.to = "Coder" /\ call.shown)

\* C10: the Session's task lock is held only while send_message_robust is
\* executing a submission; it is clear on every exit from it, normal or
\* raising, and wherever the coordinator runs outside it.
C10_LockOnlyInsideSend ==
  session.task_lock => pc \in {"send_act", "send_confirm"}

C10_LockHeld ==
  /\ session.task_lock
  /\ pc = "send_confirm"
  /\ ~call.shown

C12_FailuresNeverEndRun ==
  /\ pc \in {"except", "cooldown", "rotate"} => outcome = "running"
  /\ (hist.entered /\ pc = "done") =>
       \/ outcome = "terminated" /\ Contains(final_message, TERMINATION_PHRASE)
       \/ outcome = "stopped" /\ stop_requested
  /\ (hist.entered /\ outcome # "running") => pc = "done"

C12_TerminatedAfterRotation ==
  /\ outcome = "terminated"
  /\ hist.rotations = 1
  /\ hist.streak = MAX_ERRORS

\* C13 as stated: once the A -> B turn has fully succeeded (submission to B,
\* completion wait, extraction from B) error_count is 0.
C13_ResetAfterEachTurn ==
  pc = "o_send_A" => error_count = 0

\* C13 amended: error_count changes only in three ways: every caught failure
\* adds exactly 1, an identity rotation sets it to 0, and the end of a whole
\* cycle (A -> B turn and B -> A turn) sets it to 0; a successful A -> B
\* turn alone leaves it as it was.
C13_ResetOnlyAfterCycle ==
  [][ /\ (pc = "except" /\ pc' # pc) => error_count' = error_count + 1
      /\ (pc = "o_wait_A" /\ pc' = "o_get_A") => error_count' = 0
      /\ error_count' # error_count =>
           \/ pc = "except" /\ error_count' = error_count + 1
           \/ pc = "rotate" /\ error_count' = 0
           \/ pc = "o_wait_A" /\ pc' = "o_get_A" /\ error_count' = 0
    ]_vars

C13_TurnSucceededCountKept ==
  /\ pc = "o_send_A"
  /\ error_count = 2
  /\ hist.waited = "B"

\* C14: after a caught failure, with or without rotation, the coordinator
\* goes to the top of the outer loop and from there into the handshake (or,
\* stopped, out of the loop); it never re-enters the cycle directly.
C14_FailureReturnsToHandshake ==
  [][ /\ pc = "except" => pc' \in {"except", "cooldown", "outer"}
      /\ pc = "cooldown" => pc' \in {"cooldown", "rotate"}
      /\ pc = "rotate" => pc' \in {"rotate", "outer"}
      /\ (pc = "outer" /\ prog = "GeminiStation") => pc' \in {"outer", "handshake", "done"}
      /\ (pc = "outer" /\ prog = "Station_Optimized") =>
           \/ pc' = "outer"
           \/ page["A"].count = 0 /\ pc' = "send" /\ call'.ret = "o_hs_wait"
           \/ page["A"].count % 2 = 1 /\ pc' = "o_hs_wait"
           \/ page["A"].count > 0 /\ page["A"].count % 2 = 0 /\ pc' = "o_get_A"
    ]_vars

C14_HandshakeAfterFailures ==
  /\ prog = "GeminiStation"
  /\ pc = "handshake"
  /\ start_mode = "resume_from_b"
  /\ error_count = 2

C16_OneActiveParticipant ==
  /\ [](~(page["A"].awaiting /\ page["B"].awaiting))
  /\ [][ (~call.shown /\ call'.shown) =>
           \A p \in {"A", "B"} \ {call.to} : ~page[p].awaiting ]_vars

C16_SubmittedToB ==
  /\ pc = "send_confirm"
  /\ call.to = "B"
  /\ call.shown
  /\ page["B"].awaiting
  /\ error_count > 0

\* C17 as stated: a committed submission never goes to the participant the
\* previous committed submission went to.
C17_RecipientsAlternate ==
  [][ (~call.shown /\ call'.shown) => call.to # hist.last_to ]_vars

\* C18 as stated: send_message_robust, called with a non-empty message,
\* returns normally only if the recipient's surface changed after the call
\* began: the submitted message showed or the element count grew.
C18_ReturnsOnlyAfterChange ==
  [][ (pc = "send_confirm" /\ pc' = call.ret) =>
        (call.shown \/ page[call.to].count > call.known) ]_vars

\* C19 as stated: when the participant has finished its reply (the wait for
\* the busy signal succeeded) and the extraction read that reply, the text
\* handed to the relay loop is never empty.
C19_EmptyNeverReturned ==
  (/\ pc = "p_loop"
   /\ msg_origin = current_sender
   /\ ~page[current_sender].awaiting)
    => ~IsBlank(current_msg)

\* C20: with the user-data directory absent the run ends at the directory
\* check: run_orchestrator is not called, nothing is sent, error_count stays
\* 0 and no failure is counted or retried.
C20_SetupFailureAborts ==
  ~user_data_dir =>
    /\ pc \in {"w_run", "done"}
    /\ pc = "done" => outcome = "setup_failed"
    /\ ~hist.entered
    /\ error_count = 0
    /\ hist.streak = 0
    /\ call = NoCall

C20_SetupFailed ==
  /\ outcome = "setup_failed"
  /\ pc = "done"
  /\ ~user_data_dir

\* C21: in GeminiStation a readiness timeout of wait_for_page_stability
\* inside the relay loop goes to the loop's handler, which adds exactly 1 to
\* error_count; when that makes it the third failure in a row (error_count
\* MAX_ERRORS) the cooldown and the Session replacement follow, otherwise
\* the outer loop goes on.
C21_ReadinessCounted ==
  /\ [][(hist.entered /\ hist'.cause = "readiness" /\ hist.cause # "readiness")
          => (pc' = "except" /\ outcome' = "running"
              /\ error_count' = error_count)]_vars
  /\ [][(pc = "except" /\ hist.cause = "readiness" /\ pc' # pc)
          => /\ error_count' = error_count + 1
             /\ pc' = IF hist'.streak = MAX_ERRORS THEN "cooldown" ELSE "outer"]_vars
  /\ [][(pc = "cooldown" /\ hist.cause = "readiness" /\ pc' # pc)
          => pc' = "rotate"]_vars
  /\ [][(pc = "rotate" /\ hist.cause = "readiness" /\ pc' # pc)
          => /\ Identity(session') # Identity(session)
             /\ error_count' = 0
             /\ pc' = "outer"]_vars

\* C21 witness: the third failure in a row was a readiness timeout and the
\* handler has reached the Session replacement.
C21_ThirdReadinessRotates ==
  /\ prog = "GeminiStation"
  /\ pc = "rotate"
  /\ hist.cause = "readiness"
  /\ hist.streak = MAX_ERRORS
  /\ error_count = MAX_ERRORS

\* C22 as stated: wherever a readiness wait fails, the run is aborted, and no
\* failure is counted.
C22_ReadinessAlwaysAborts ==
  hist.cause = "readiness"
    => (pc = "done" /\ outcome = "crashed" /\ error_count = 0)

\* C22 amended: a readiness timeout at start-up, before run_orchestrator is
\* called, aborts the run with a fatal error, nothing counted, retried or
\* sent; a readiness timeout inside run_orchestrator's loop is in the hands
\* of the loop's handler and the run goes on.
C22_StartupReadinessAborts ==
  /\ (hist.cause = "readiness" /\ ~hist.entered)
       => /\ pc = "done"
          /\ outcome = "crashed"
          /\ error_count = 0
          /\ hist.streak = 0
          /\ hist.rotations = 0
          /\ call = NoCall
  /\ (hist.cause = "readiness" /\ hist.entered)
       => (pc \in {"except", "cooldown", "rotate"} /\ outcome = "running")

\* C22 witness: the run was aborted by a readiness timeout at start-up.
C22_AbortedAtStartup ==
  /\ outcome = "crashed"
  /\ hist.cause = "readiness"
  /\ ~hist.entered
  /\ ~stop_requested

\* C23 as stated: in the three-party loop a failure raised by a submission
\* or by the extraction that follows it never ends the run.
C23_FailuresCaughtInLoop ==
  [][(pc \in {"send_act", "send_confirm", "p_recv"})
       => outcome' # "crashed"]_vars

\* C24 as stated: whenever one of the stop checks (BackendWorker.run before
\* the launch and in the countdown, run_orchestrator at the top of the outer
\* loop and of the cycle) finds the flag set and ends the run, the run ends
\* as stopped by request, not with a fatal error.
C24_CancelledNeverFatal ==
  [][(/\ prog = "GeminiStation"
      /\ stop_requested
      /\ pc \in {"w_launch", "w_countdown", "outer", "cycle"}
      /\ pc' = "done")
       => outcome' = "stopped"]_vars

\* C25 as stated: with the stop flag set, no call of send_message_robust is
\* started (the flag is tested immediately before every submission).
C25_NoSubmissionOnceStopped ==
  [][(prog = "GeminiStation" /\ stop_requested)
       => ~(pc # "send" /\ pc' = "send")]_vars

\* C26 as stated: stripping a stripped text changes nothing:
\* strip(strip(t)) = strip(t) for every raw text t.
C26_StripIdempotent ==
  pc = "strip_done" => unit.again = unit.cleaned

C29_NoArrivalRaises ==
  (/\ unit.fn = "wait"
   /\ ~unit.arrived
   /\ pc \notin {"wa_arrival", "wa_check"})
    => /\ pc \in {"except", LoopTop}
       /\ outcome = "running"
       /\ unit.initial_change = "False"
       /\ unit.indicators = "-"
       /\ unit.busy = "-"
       /\ unit.samples = 0
       /\ unit.ended_by = "-"
       /\ error_count = IF pc = "except" THEN 0 ELSE 1

\* C29 witness: the arrival wait timed out on an unchanged surface and the
\* failure has been counted.
C29_ArrivalTimeoutCounted ==
  /\ unit.fn = "wait"
  /\ ~unit.arrived
  /\ unit.len = unit.previous_len
  /\ unit.count <= unit.previous_count
  /\ unit.initial_change = "False"
  /\ pc = LoopTop
  /\ error_count = 1

\* C30: in wait_for_ai_response, the wait for the indicators to be hidden
\* is left for the stability observation only, whether it ended with every
\* indicator hidden, with a timeout or with another error: nothing is raised
\* and no failure is counted; and when no indicator is found the function
\* goes to the stability observation without waiting for any.
C30_BusyWaitNeverRaises ==
  /\ [][(pc = "wa_busy" /\ pc' # pc)
          => /\ pc' = "wa_sample1"
             /\ outcome' = "running"
             /\ unit'.busy \in {"hidden", "timeout", "error"}
             /\ error_count' = error_count]_vars
  /\ [][(pc = "wa_test" /\ IndicatorCount(unit) = 0 /\ pc' # pc)
          => /\ pc' = "wa_sample1"
             /\ unit'.busy = "-"]_vars
  /\ [][(unit.fn = "wait" /\ unit.busy = "-" /\ unit'.busy # "-")
          => pc = "wa_busy"]_vars
  /\ []((unit.fn = "wait" /\ unit.busy # "-")
          => /\ pc \in {"wa_sample1", "wa_sample2", "wa_loop", "wa_poll",
                        "wa_returned"}
             /\ error_count = 0
             /\ outcome = "running")

\* C30 witness: the indicator did not get hidden in time, and the function
\* returned from the stability observation all the same.
C30_StuckIndicatorThenStable ==
  /\ unit.fn = "wait"
  /\ unit.busy = "timeout"
  /\ IndicatorCount(unit) > 0
  /\ unit.samples >= 2
  /\ pc = "wa_returned"
  /\ unit.ended_by = "equal"
  /\ error_count = 0

\* C31 as stated: the stability observation of wait_for_ai_response returns
\* only when its two latest samples of the rendered length are equal, when
\* the ceiling is exceeded or when sampling raised; and unless sampling
\* raised it has read at least two samples.
C31_FinalOnlyOnEqualSamples ==
  (unit.fn = "wait" /\ pc = "wa_returned")
    => \/ unit.ended_by \in {"ceiling", "sample_error"}
       \/ /\ unit.samples >= 2
          /\ unit.before = unit.current_len

\* C32 as stated: a poll of the stability loop made more than 180 seconds
\* after the loop started ends the loop, the function returning normally.
C32_EndsAfterCeiling ==
  [][(unit.fn = "wait" /\ pc = "wa_poll" /\ unit'.elapsed >= 1)
       => pc' = "wa_returned"]_vars

\* C33 as stated: a handshake that does not fail submits the start message
\* to Agent A when A's page holds no message element, and submits nothing
\* and goes on to read A's latest message when it holds one.
C33_StartIffBlank ==
  [][(/\ \/ prog = "GeminiStation" /\ pc = "handshake"
         \/ prog = "Station_Optimized" /\ pc = "outer"
      /\ pc' # pc
      /\ pc' # "except")
       => IF page["A"].count = 0
          THEN /\ pc' = "send"
               /\ call'.to = "A"
               /\ call'.msg = START_CMD_MSG
          ELSE /\ pc' \in {"cycle", "o_get_A", "o_hs_wait"}
               /\ call'.msg = NoText]_vars

\* C33 amended: the blank-page test decides in Station_Optimized and in
\* GeminiStation's start mode new only: there the start message is submitted
\* to Agent A exactly when A's page holds no message element, and nothing is
\* submitted otherwise.  In resume_from_a the handshake submits nothing
\* whatever A's page holds; in resume_from_b it extracts Agent B's latest
\* message and submits that to Agent A whatever A's page holds.  The start
\* message is submitted by no other step.
C33_StartIffBlankInNewMode ==
  /\ [][(/\ \/ prog = "GeminiStation" /\ pc = "handshake"
            \/ prog = "Station_Optimized" /\ pc = "outer"
         /\ pc' # pc
         /\ pc' # "except")
          => IF prog = "Station_Optimized" \/ start_mode = "new"
             THEN IF page["A"].count = 0
                  THEN /\ pc' = "send"
                       /\ call'.to = "A"
                       /\ call'.msg = START_CMD_MSG
                  ELSE /\ pc' \in {"cycle", "o_get_A", "o_hs_wait"}
                       /\ call'.msg = NoText
             ELSE IF start_mode = "resume_from_a"
             THEN pc' = "cycle" /\ call' = call /\ page' = page
             ELSE /\ pc' = "g_rb_send"
                  /\ message_B' = page["B"].text
                  /\ call' = call]_vars
  /\ [][(pc = "g_rb_send" /\ pc' = "send")
          => /\ call'.to = "A"
             /\ call'.msg = message_B
             /\ call'.origin = "B"]_vars
  /\ [][(prog \in TwoParty /\ pc # "send" /\ pc' = "send"
           /\ call'.origin = "relay")
          => /\ call'.msg = START_CMD_MSG
             /\ page["A"].count = 0
             /\ pc \in {"handshake", "outer"}
             /\ prog = "GeminiStation" => start_mode = "new"]_vars

\* C33 witness: a run resumed from Agent A on a blank page of A has passed
\* the handshake and reached the cycle with nothing submitted.
C33_ResumedOnBlankPage ==
  /\ prog = "GeminiStation"
  /\ start_mode = "resume_from_a"
  /\ pc = "g_get_A"
  /\ page["A"].count = 0
  /\ hist.last_to = "-"
  /\ call = NoCall
  /\ error_count = 0

\* C34 as stated: in a run started in resume_from_b the hop from Agent B to
\* Agent A is made once: its submission to Agent A is started only while
\* nothing has been submitted in the run yet.
C34_HopOnlyOnce ==
  [][(prog = "GeminiStation" /\ pc = "g_rb_send" /\ pc' = "send")
       => hist.last_to = "-"]_vars

\* C35 as stated: after a turn failed below the threshold, the next
\* submission goes to the recipient of the failed turn.
C35_SameTurnRetried ==
  [][(/\ prog \in TwoParty
      /\ pc # "send"
      /\ pc' = "send"
      /\ hist.turn_failed
      /\ hist.turn_to # "-")
       => call'.to = hist.turn_to]_vars

\* C36 as stated: once a failure has been caught, the handler has written
\* out the incremented error count both as a log entry and as an
\* error-count event.
C36_ErrorCountEventEmitted ==
  (unit.fn = "handler" /\ pc # "except")
    => LET n == IF hist.rotations > 0 THEN MAX_ERRORS ELSE error_count IN
         /\ \E i \in DOMAIN unit.reports : unit.reports[i] = <<"error_log", n>>
         /\ \E i \in DOMAIN unit.reports :
              unit.reports[i] = <<"error_count_event", n>>

\* C36 amended: the first thing the handler writes out is the error report
\* with the incremented count: in GeminiStation the error-count event and
\* then the log entry, in Station_Optimized the log entry alone.  It is
\* written before the cooldown sleep, the Session replacement and the return
\* to the handshake; a Session replacement writes a rotation log entry, and
\* a plain retry writes none.
C36_ErrorReportedFirst ==
  /\ []((unit.fn = "handler" /\ pc # "except")
          => LET n == IF hist.rotations > 0 THEN MAX_ERRORS ELSE error_count
                 r == unit.reports IN
               /\ Len(r) >= 1
               /\ IF prog = "GeminiStation"
                  THEN /\ Len(r) >= 2
                       /\ r[1] = <<"error_count_event", n>>
                       /\ r[2] = <<"error_log", n>>
                  ELSE /\ r[1] = <<"error_log", n>>
                       /\ \A i \in DOMAIN r : r[i][1] # "error_count_event"
               /\ (\E i \in DOMAIN r : r[i][1] = "rotation_log")
                    <=> hist.rotations > 0)
  /\ [][(unit.fn = "handler" /\ (now' # now \/ session' # session))
          => \E i \in DOMAIN unit.reports :
               unit.reports[i] = <<"error_log", error_count>>]_vars
  /\ [][(unit.fn = "handler" /\ session' # session)
          => /\ \A i \in DOMAIN unit.reports : unit.reports[i][1] # "rotation_log"
             /\ \E i \in DOMAIN unit'.reports : unit'.reports[i][1] = "rotation_log"]_vars
  /\ [][(unit.fn = "handler" /\ pc = "except" /\ pc' = LoopTop)
          => /\ session' = session
             /\ \A i \in DOMAIN unit'.reports :
                  unit'.reports[i][1] \notin {"rotation_log", "threshold_log"}]_vars

\* C36 witness: Station_Optimized has caught its third failure, slept and
\* replaced the Session; it wrote the log entries and no error-count event.
C36_RotationReportedByLogAlone ==
  /\ unit.fn = "handler"
  /\ prog = "Station_Optimized"
  /\ pc = LoopTop
  /\ hist.rotations = 1
  /\ error_count = 0
  /\ unit.reports = << <<"error_log", MAX_ERRORS>>, <<"threshold_log", MAX_ERRORS>>,
                       <<"rotation_log", 0>>, <<"reborn_log", 0>> >>

\* C37: in GeminiStation no message is ever submitted to Agent B and no
\* cycle iteration gets past the forwarding to B: the step that follows the
\* termination check always raises (the readiness wait on B or the
\* thinking-delay lookup, whose key no persona holds), every call of
\* wait_for_ai_response from the orchestrator raises, and error_count is
\* reset by the rotation only.
C37_NothingReachesAgentB ==
  /\ [](prog = "GeminiStation"
          => /\ call.to # "B"
             /\ hist.last_to # "B"
             /\ ~page["B"].awaiting
             /\ pc \notin {"g_stop2", "wait_ai"}
             /\ ThinkingDelayLookup(session) = "KeyError")
  /\ [][(prog = "GeminiStation" /\ pc \in {"g_fwd_B", "g_hs_wait"} /\ pc' # pc)
          => pc' = "except"]_vars
  /\ [][(prog = "GeminiStation" /\ error_count' < error_count)
          => pc = "rotate"]_vars

\* C37 witness: the first failure of a run, raised by the thinking-delay
\* lookup after Agent A's message was extracted and found not to end the
\* task.
C37_LookupRaised ==
  /\ prog = "GeminiStation"
  /\ pc = "except"
  /\ error_count = 0
  /\ hist.streak = 0
  /\ hist.cause = "-"
  /\ ~hist.turn_failed
  /\ message_A # NoText
  /\ ~Contains(message_A, TERMINATION_PHRASE)
  /\ ~stop_requested

\* C38 as stated: in the three-party relay, when the floor passes to the
\* recipient with a new current message, a message was submitted to the
\* recipient in that iteration and the new current message is a reply the
\* recipient produced after it.
C38_FloorPassesOnFreshReply ==
  [][(prog = "ide3" /\ pc = "p_recv" /\ pc' = "p_loop")
       => /\ call.shown
          /\ ~page[call.to].awaiting
          /\ msg_origin' = call.to]_vars

\* C39 as stated: in Station_Optimized, once the recipient of a committed
\* submission has produced its reply element, the completion wait that
\* follows does not end in a failure.
C39_ReplyEndsWait ==
  [][(/\ prog = "Station_Optimized"
      /\ pc \in {"o_wait_B", "o_wait_A"}
      /\ call.shown
      /\ ~page[call.to].awaiting
      /\ page[call.to].origin = call.to)
       => pc' # "except"]_vars

\* C40 as stated: once a stop has been requested in GeminiStation, no
\* cooldown sleep is started and no Session is constructed.
C40_NoRotationOnceStopped ==
  [][(prog = "GeminiStation" /\ stop_requested)
       => /\ hist'.sleeps = hist.sleeps
          /\ session' = session]_vars

\* C40 amended: the handler does not look at the stop flag.  With a stop
\* pending it counts the failure and, at the threshold, sleeps and replaces
\* the Session as without one; the stop is honoured at the stop check at the
\* top of the outer loop, so that no handshake begins after the rotation:
\* the run ends as stopped.
C40_StopHonouredAfterRotation ==
  /\ [][(prog = "GeminiStation" /\ stop_requested /\ pc = "except" /\ pc' # pc)
          => /\ error_count' = error_count + 1
             /\ pc' = IF error_count' >= MAX_ERRORS THEN "cooldown" ELSE "outer"]_vars
  /\ [][(prog = "GeminiStation" /\ stop_requested /\ pc = "cooldown" /\ pc' # pc)
          => /\ pc' = "rotate"
             /\ now' >= now + FRUSTRATION_MIN_S
             /\ hist'.sleeps = hist.sleeps + 1]_vars
  /\ [][(prog = "GeminiStation" /\ stop_requested /\ pc = "rotate" /\ pc' # pc)
          => /\ pc' = "outer"
             /\ session'.session_seed = now
             /\ error_count' = 0
             /\ hist'.rotations = hist.rotations + 1]_vars
  /\ [][(prog = "GeminiStation" /\ stop_requested /\ pc = "outer" /\ pc' # pc)
          => /\ pc' = "done"
             /\ outcome' = "stopped"]_vars

\* C40 witness: a stop was requested while the handler was about to sleep;
\* the run slept, replaced the Session and then ended as stopped.
C40_StoppedAfterRotation ==
  /\ prog = "GeminiStation"
  /\ outcome = "stopped"
  /\ hist.stop_pc = "cooldown"
  /\ hist.sleeps = 1
  /\ hist.rotations = 1
  /\ session.session_seed >= FRUSTRATION_MIN_S
  /\ error_count = 0

====
